---- MODULE Spec2Model ----
(***************************************************************************)
(* Model of src/app.py: the FastAPI adapter of the SQL agent.               *)
(*   - execute_query        POST /query            (request/response turn) *)
(*   - clear_conversation   POST /clear            (global reset)          *)
(*   - websocket_endpoint   WebSocket /ws/{user}   (streaming turns)       *)
(* The reasoning engine (sql_agent.get_or_create_agent, agent.stream) is   *)
(* not part of src/: its singleton lifecycle and per-thread memory are     *)
(* modelled from the specification, its event sequence is an input.        *)
(***************************************************************************)
EXTENDS Integers, Sequences, FiniteSets, TLC

VARIABLES
    globalAgent,   \* sql_agent._global_agent: 0 is None, otherwise the engine instance
    created,       \* number of engine instances created so far
    resets,        \* the POST /clear requests so far (their user_id)
    engineEpoch,   \* engineEpoch[e]: the number of resets before instance e was created
    memory,        \* memory[e][thread]: turns remembered by instance e for a thread
    turns,         \* log of the engine invocations (one record per turn)
    ws,            \* ws[c]: the state of the coroutine serving streaming channel c
    http,          \* the response of the latest POST /query
    prefs,         \* the rows of the user_preferences table
    prefResp       \* the response of the latest preferences request

vars == <<globalAgent, created, resets, engineEpoch, memory, turns, ws, http,
          prefs, prefResp>>

prefVars == <<prefs, prefResp>>

----------------------------------------------------------------------------
(* Bounds of the model *)

MaxEvents == 3      \* events the engine yields in one turn
MaxSessionEvents == 1   \* the same, in the session specification
MaxTurns == 2       \* engine invocations in one behaviour
MaxResets == 1      \* POST /clear requests in one behaviour

----------------------------------------------------------------------------
(* Values *)

None == "<None>"            \* Python None / a missing attribute or key
NotStr == "<list>"          \* a msg.content that is not a str
SQL_TOOL == "sql_db_query"
OTHER_TOOL == "sql_db_list_tables"
FALLBACK == "Query processed successfully"
QUERY_REQUIRED == "Query is required"
DEFAULT_USER == "default_user"
ENGINE_ERROR == "engine failure"
ENHANCED_INPUT == "[User ID: u] q1"     \* f"[User ID: {user_id}]\n{query}"

Channels == {1, 2}
WsUsers == {"u1", "u2"}
Threads == WsUsers \cup {DEFAULT_USER}
Engines == 1..(MaxResets + 1)

SeqsUpTo(S, n) == UNION {[1..k -> S] : k \in 0..n}

(* One tool call of msg.tool_calls: its name and args.get('query'). *)
ToolCall(name, query) == [name |-> name, query |-> query]

(* One event of agent.stream(..., stream_mode="values"): whether it has the
   "messages" key and, of its last message, tool_calls, content and name.  *)
Event(tcs, content, name) ==
    [has_messages |-> TRUE, tool_calls |-> tcs, content |-> content, name |-> name]

NoMessagesEvent ==
    [has_messages |-> FALSE, tool_calls |-> <<>>, content |-> None, name |-> None]

(* The state the engine starts from, in stream_mode="values": its last
   message is the caller's ("user", enhanced_input).                        *)
Utterance == Event(<<>>, ENHANCED_INPUT, None)

(* The events of the turn-level specifications. *)
TurnEvents ==
    { Utterance,
      Event(<<>>, "m1", None),
      Event(<<>>, "", None),
      Event(<<ToolCall(SQL_TOOL, "Q1")>>, "", None),
      Event(<<ToolCall(SQL_TOOL, "Q2")>>, NotStr, None),
      Event(<<ToolCall(OTHER_TOOL, None)>>, "", None),
      Event(<<ToolCall(OTHER_TOOL, None), ToolCall(SQL_TOOL, None)>>, "m2", None),
      Event(<<>>, "r1", SQL_TOOL),
      Event(<<>>, "r2", OTHER_TOOL) }

(* The events of the session specification, where only sessions matter. *)
SessionEvents == { Event(<<>>, "m1", None) }

(* Inbound text frames: what json.loads makes of them. *)
Inbound ==
    { [json |-> "invalid", query |-> None],
      [json |-> "array", query |-> None],
      [json |-> "object", query |-> None],
      [json |-> "object", query |-> ""],
      [json |-> "object", query |-> "q1"] }

----------------------------------------------------------------------------
(* Event interpretation, shared shape of execute_query and websocket_endpoint *)

HasToolCalls(msg) == msg.has_messages /\ Len(msg.tool_calls) > 0

HasStrContent(msg) == msg.has_messages /\ msg.content \notin {None, NotStr}

IsSqlResult(msg) == msg.name = SQL_TOOL

IsUnnamed(msg) == msg.name \in {None, ""}

(* tool_call.get('args', {}).get('query', '') *)
ArgQuery(tc) == IF tc.query = None THEN "" ELSE tc.query

IsSqlCall(tc) == tc.name = SQL_TOOL

(* mutant of SqlAfterCalls: the first call on the SQL tool is kept *)
RECURSIVE SqlFirstCall(_, _)
SqlFirstCall(sql, tcs) ==
    IF tcs = <<>> THEN sql
    ELSE SqlFirstCall(IF IsSqlCall(Head(tcs)) /\ sql = None THEN ArgQuery(Head(tcs)) ELSE sql,
                      Tail(tcs))

(* the loop over msg.tool_calls: the last call on the SQL tool wins *)
RECURSIVE SqlAfterCalls(_, _)
SqlAfterCalls(sql, tcs) ==
    IF tcs = <<>> THEN sql
    ELSE SqlAfterCalls(IF IsSqlCall(Head(tcs)) THEN ArgQuery(Head(tcs)) ELSE sql,
                       Tail(tcs))

(* execute_query: the accumulators before the loop over the events *)
InitialOutcome == [summary |-> "", sql_query |-> None, raw_result |-> None]

(* execute_query: one iteration of `for event in events` *)
CollectEvent(acc, event) ==
    IF ~event.has_messages THEN acc
    ELSE LET sql == IF HasToolCalls(event)
                    THEN SqlAfterCalls(acc.sql_query, event.tool_calls)
                    ELSE acc.sql_query
             raw == IF HasStrContent(event) /\ IsSqlResult(event)
                    THEN event.content ELSE acc.raw_result
             summary == IF HasStrContent(event) /\ ~IsSqlResult(event) /\ IsUnnamed(event)
                        THEN event.content ELSE acc.summary
         IN [summary |-> summary, sql_query |-> sql, raw_result |-> raw]

RECURSIVE CollectEvents(_, _)
CollectEvents(acc, events) ==
    IF events = <<>> THEN acc
    ELSE CollectEvents(CollectEvent(acc, Head(events)), Tail(events))

(* mutant of SummaryOrFallback: summary=summary *)
SummaryAsIs(summary) == summary

(* execute_query: summary=summary or "Query processed successfully" *)
SummaryOrFallback(summary) == IF summary = "" THEN FALLBACK ELSE summary

(* An outbound frame: the `status` and `type` discriminators, the tool of a
   tool_call, the text it carries (args.query, content, sql_query or error)
   and the index of the event of the turn that produced it (0: none).      *)
Frame(status, type, tool, text, ev) ==
    [status |-> status, type |-> type, tool |-> tool, text |-> text, ev |-> ev]

ProcessingFrame == Frame("processing", None, None, None, 0)
CompletedFrame(sql) == Frame("completed", None, None, sql, 0)
(* mutant of ErrorFrame: the frame carries the error text but no status *)
ErrorFrameNoStatus(e) == Frame(None, None, None, e, 0)

ErrorFrame(e) == Frame("error", None, None, e, 0)
QueryRequiredFrame == Frame(None, None, None, QUERY_REQUIRED, 0)

(* websocket_endpoint: the tool_call frames of msg.tool_calls *)
ToolCallFrames(tcs, ev) ==
    [i \in 1..Len(tcs) |-> Frame(None, "tool_call", tcs[i].name, tcs[i].query, ev)]

(* mutant of ContentFrames: every other string content is sent as a message *)
ContentFramesAnyName(msg, ev) ==
    IF ~HasStrContent(msg) THEN <<>>
    ELSE IF IsSqlResult(msg) THEN <<Frame(None, "raw_result", None, msg.content, ev)>>
    ELSE <<Frame(None, "message", None, msg.content, ev)>>

(* websocket_endpoint: the raw_result or message frame of msg.content *)
ContentFrames(msg, ev) ==
    IF ~HasStrContent(msg) THEN <<>>
    ELSE IF IsSqlResult(msg) THEN <<Frame(None, "raw_result", None, msg.content, ev)>>
    ELSE IF IsUnnamed(msg) THEN <<Frame(None, "message", None, msg.content, ev)>>
    ELSE <<>>

(* websocket_endpoint: the frames one iteration of `for event in events` sends *)
EventFrames(event, ev) ==
    IF ~event.has_messages THEN <<>>
    ELSE (IF HasToolCalls(event) THEN ToolCallFrames(event.tool_calls, ev) ELSE <<>>)
         \o ContentFrames(event, ev)

(* websocket_endpoint: sql_query after one iteration *)
WsSqlAfter(sql, event) ==
    IF HasToolCalls(event) THEN SqlAfterCalls(sql, event.tool_calls) ELSE sql

(* websocket_endpoint: raw_result after one iteration *)
WsRawAfter(raw, event) ==
    IF HasStrContent(event) /\ IsSqlResult(event) THEN event.content ELSE raw

(* an iteration that sends nothing does not suspend the coroutine *)
IsSilent(event) == EventFrames(event, 0) = <<>>

----------------------------------------------------------------------------
(* The session registry: sql_agent's singleton engine and its memory *)

(* the number of resets so far *)
epoch == Len(resets)

(* get_or_create_agent(): the instance it returns (0: it raised) and the
   registry after the call.  `ok` tells whether a needed creation succeeds. *)
get_or_create_agent(ok) ==
    IF globalAgent # 0
    THEN [agent |-> globalAgent, globalAgent |-> globalAgent, created |-> created,
          engineEpoch |-> engineEpoch]
    ELSE IF ok
    THEN [agent |-> created + 1, globalAgent |-> created + 1, created |-> created + 1,
          engineEpoch |-> [engineEpoch EXCEPT ![created + 1] = epoch]]
    ELSE [agent |-> 0, globalAgent |-> globalAgent, created |-> created,
          engineEpoch |-> engineEpoch]

(* mutant of HttpConfig: the thread of the default user, whatever the request *)
HttpConfigDefault(request) == [thread_id |-> DEFAULT_USER]

(* config = {"configurable": {"thread_id": request.user_id}} of execute_query *)
HttpConfig(request) == [thread_id |-> request.user_id]

(* mutant of WsConfig: the thread of the default user, whatever the channel *)
WsConfigDefault(user_id) == [thread_id |-> DEFAULT_USER]

(* config = {"configurable": {"thread_id": user_id}} of websocket_endpoint *)
WsConfig(user_id) == [thread_id |-> user_id]

(* the turns whose streaming coroutine is suspended inside its event loop *)
InFlight == {ws[c].turn : c \in {d \in Channels : ws[d].pc = "stream"}}

(* agent.stream(...) on instance g.agent: the engine reads the memory of the
   thread, then remembers this turn in it.                                  *)
BeginTurn(g, surface, user_id, config) ==
    /\ globalAgent' = g.globalAgent
    /\ created' = g.created
    /\ engineEpoch' = g.engineEpoch
    /\ memory' = [memory EXCEPT ![g.agent][config.thread_id] = Append(@, Len(turns) + 1)]
    /\ turns' = Append(turns, [surface |-> surface, user_id |-> user_id,
                               thread |-> config.thread_id, engine |-> g.agent,
                               epoch |-> epoch, seen |-> memory[g.agent][config.thread_id],
                               overlap |-> InFlight])

NoTurn == UNCHANGED <<globalAgent, created, engineEpoch, memory, turns>>

(* engine invocations started or already acknowledged with a processing frame *)
Budget == Len(turns) + Cardinality({c \in Channels : ws[c].pc = "start"})

----------------------------------------------------------------------------
(* POST /query *)

NoResponse ==
    [status |-> 0, user_id |-> None, query |-> None, summary |-> None,
     sql_query |-> None, raw_result |-> None, detail |-> None, events |-> <<>>,
     raised |-> FALSE]

(* QueryResponse(...) built from the accumulators; events and raised (whether
   the try block raised) are kept for the statement of the properties only. *)
QueryResponse(request, acc, events) ==
    [status |-> 200, user_id |-> request.user_id, query |-> request.query,
     summary |-> SummaryOrFallback(acc.summary), sql_query |-> acc.sql_query,
     raw_result |-> acc.raw_result, detail |-> None, events |-> events,
     raised |-> FALSE]

(* mutant of QueryFailure: the handler answers with what was collected *)
QueryFailureSwallowed(request, events) ==
    [QueryResponse(request, CollectEvents(InitialOutcome, events), events)
        EXCEPT !.raised = TRUE]

(* HTTPException(status_code=500, detail="Query execution failed: ...") *)
QueryFailure(request, events) ==
    [status |-> 500, user_id |-> None, query |-> None, summary |-> None,
     sql_query |-> None, raw_result |-> None, detail |-> ENGINE_ERROR, events |-> events,
     raised |-> TRUE]

(* execute_query.  The coroutine never awaits, so the whole turn is one step.
   events: what the engine yields; raises: it raises after yielding them.   *)
execute_query(request, ok, events, raises) ==
    /\ Budget < MaxTurns
    /\ LET g == get_or_create_agent(ok) IN
         IF g.agent = 0
         THEN /\ events = <<>> /\ raises
              /\ NoTurn
              /\ http' = QueryFailure(request, <<>>)
         ELSE /\ BeginTurn(g, "http", request.user_id, HttpConfig(request))
              /\ http' = IF raises THEN QueryFailure(request, events)
                         ELSE QueryResponse(request,
                                            CollectEvents(InitialOutcome, events), events)
    /\ UNCHANGED <<resets, ws, prefVars>>

----------------------------------------------------------------------------
(* POST /clear *)

(* mutant of clear_conversation: `_global_agent = None` on the name imported
   into app.py, which leaves sql_agent._global_agent as it is               *)
clear_imported_name(request) ==
    /\ Len(resets) < MaxResets
    /\ resets' = Append(resets, request.user_id)
    /\ UNCHANGED <<globalAgent, created, engineEpoch, memory, turns, ws, http, prefVars>>

(* clear_conversation: sql_agent._global_agent = None, whatever request.user_id *)
clear_conversation(request) ==
    /\ Len(resets) < MaxResets
    /\ globalAgent' = 0
    /\ resets' = Append(resets, request.user_id)
    /\ UNCHANGED <<created, engineEpoch, memory, turns, ws, http, prefVars>>

----------------------------------------------------------------------------
(* WebSocket /ws/{user_id} *)

(* The coroutine of one channel.  pc: "idle" (not connected), "receive"
   (awaiting receive_text), "start" (processing frame sent), "stream"
   (suspended at a send inside the event loop), "closed" (returned).
   inbound, calls, evs, frames, raised and disconnected describe the handling
   of the latest inbound frame: its shape, the get_or_create_agent calls, the
   events consumed, the frames sent, whether the inner try caught an
   exception of the engine, and whether the peer is gone; sources tells
   which instances yielded its events after a reset, stale whether an
   earlier turn had left a SQL text in sql_query.                           *)
IdleChannel ==
    [pc |-> "idle", user_id |-> None, inbound |-> "none", query |-> None,
     agent |-> 0, turn |-> 0, sql_query |-> None, raw_result |-> None,
     evs |-> <<>>, frames |-> <<>>, calls |-> 0, raised |-> FALSE,
     disconnected |-> FALSE, sources |-> {}, stale |-> FALSE]

(* await websocket.accept() *)
websocket_accept(c, user_id) ==
    /\ ws[c].pc = "idle"
    /\ ws' = [ws EXCEPT ![c] = [IdleChannel EXCEPT !.pc = "receive", !.user_id = user_id]]
    /\ UNCHANGED <<globalAgent, created, resets, engineEpoch, memory, turns, http, prefVars>>

(* request_data.get("query", "") *)
RequestQuery(data) == IF data.query = None THEN "" ELSE data.query

(* mutant of QueryMissing: `if query is None` *)
QueryIsNone(query) == query = None

(* `if not query` *)
QueryMissing(query) == query = ""

(* the handlers around the `while True` loop: the coroutine returns; the
   generic handler still tries to send an error frame                      *)
LoopExit(w, frames, disconnected) ==
    [w EXCEPT !.pc = "closed", !.frames = frames, !.disconnected = disconnected]

(* a send inside the inner try failed: the inner handler's own send fails as
   well, the exception leaves the loop and the last send is swallowed       *)
SendFailed(w, frames) == LoopExit(w, frames, TRUE)

(* receive_text raises WebSocketDisconnect *)
websocket_disconnect(c) ==
    /\ ws[c].pc = "receive"
    /\ ws' = [ws EXCEPT ![c] = LoopExit(@, @.frames, TRUE)]
    /\ UNCHANGED <<globalAgent, created, resets, engineEpoch, memory, turns, http, prefVars>>

(* the shape of an inbound frame: not a JSON object, a JSON object whose
   query is missing or empty, or one with a query                           *)
InboundShape(data) ==
    IF data.json # "object" THEN "malformed"
    ELSE IF data.query \in {None, ""} THEN "empty"
    ELSE "valid"

(* One inbound frame up to the next await that follows its first send.
   sent: whether the peer still takes the frame this step sends.            *)
websocket_receive(c, data, sent) ==
    /\ ws[c].pc = "receive"
    /\ LET w == [ws[c] EXCEPT !.inbound = InboundShape(data), !.query = None,
                              !.agent = 0, !.turn = 0, !.evs = <<>>,
                              !.frames = <<>>, !.calls = 0, !.raised = FALSE,
                              !.sources = {}, !.stale = FALSE]
           query == RequestQuery(data)
       IN  IF data.json # "object"
           THEN \* json.loads or .get raises: caught outside the loop
                ws' = [ws EXCEPT ![c] =
                          LoopExit(w, IF sent THEN <<ErrorFrame("malformed")>> ELSE <<>>,
                                   ~sent)]
           ELSE IF QueryMissing(query)
           THEN ws' = [ws EXCEPT ![c] =
                          IF sent
                          THEN [w EXCEPT !.query = query, !.frames = <<QueryRequiredFrame>>]
                          ELSE LoopExit(w, <<>>, TRUE)]
           ELSE /\ Budget < MaxTurns
                /\ ws' = [ws EXCEPT ![c] =
                          IF sent
                          THEN [w EXCEPT !.query = query, !.pc = "start",
                                         !.frames = <<ProcessingFrame>>]
                          ELSE LoopExit(w, <<>>, TRUE)]
    /\ UNCHANGED <<globalAgent, created, resets, engineEpoch, memory, turns, http, prefVars>>

(* What the engine does when the loop asks for the next event. *)
Yield(event) == [kind |-> "event", event |-> event]
StreamEnd == [kind |-> "end", event |-> NoMessagesEvent]
StreamRaise == [kind |-> "raise", event |-> NoMessagesEvent]

(* mutant of TurnFailed: the handler sends the error frame and leaves the loop *)
TurnFailedLeaves(w, e) ==
    [w EXCEPT !.pc = "closed", !.raised = TRUE, !.frames = Append(@, ErrorFrame(e))]

(* the inner handler: an error frame, and the loop goes on *)
TurnFailed(w, e) ==
    [w EXCEPT !.pc = "receive", !.raised = TRUE, !.frames = Append(@, ErrorFrame(e))]

(* mutant of TurnCompleted: the coroutine returns after the completed frame *)
TurnCompletedLeaves(w) ==
    [w EXCEPT !.pc = "closed", !.frames = Append(@, CompletedFrame(w.sql_query))]

(* the completed frame after the loop over the events *)
TurnCompleted(w) ==
    [w EXCEPT !.pc = "receive", !.frames = Append(@, CompletedFrame(w.sql_query))]

(* mutant of StreamSource: the loop asks the registry's current instance *)
StreamSourceGlobal(w) == globalAgent

(* `events` is the generator of the local `agent` of this turn *)
StreamSource(w) == w.agent

(* the loop asks `events` for what comes next; sources keeps, for the
   properties, the instances that were asked after a reset that came while
   the turn was running                                                     *)
Pulled(w) ==
    IF w.turn \in DOMAIN turns /\ epoch > turns[w.turn].epoch
    THEN [w EXCEPT !.sources = @ \cup {StreamSource(w)}]
    ELSE w

(* The event loop from where it stands to its next await: the silent
   iterations, then `last`: an event that sends frames, the end of the
   stream (completed frame) or an exception (error frame).  cut: how many
   frames of this step the peer takes before it is gone.                    *)
Iterate(w0, silent, last, cut) ==
    LET w == Pulled(w0)
        evs == w.evs \o silent
        ev == Len(evs) + 1
    IN  CASE last.kind = "event" ->
               LET out == EventFrames(last.event, ev) IN
               IF cut >= Len(out)
               THEN [w EXCEPT !.pc = "stream", !.evs = Append(evs, last.event),
                              !.frames = @ \o out,
                              !.sql_query = WsSqlAfter(@, last.event),
                              !.raw_result = WsRawAfter(@, last.event)]
               ELSE SendFailed([w EXCEPT !.evs = Append(evs, last.event)],
                               w.frames \o SubSeq(out, 1, cut))
          [] last.kind = "end" ->
               IF cut >= 1
               THEN TurnCompleted([w EXCEPT !.evs = evs])
               ELSE SendFailed([w EXCEPT !.evs = evs], w.frames)
          [] last.kind = "raise" ->
               IF cut >= 1
               THEN TurnFailed([w EXCEPT !.evs = evs], ENGINE_ERROR)
               ELSE SendFailed([w EXCEPT !.evs = evs, !.raised = TRUE], w.frames)

(* mutant of TurnLocals: the accumulators keep what the last turn left *)
TurnLocalsKept(w) == [w EXCEPT !.stale = w.sql_query # None]

(* sql_query = None, raw_result = None before the loop over the events *)
TurnLocals(w) ==
    [w EXCEPT !.sql_query = None, !.raw_result = None, !.stale = w.sql_query # None]

(* the inputs of one step of the loop that the code can take *)
StepInput(w, silent, last, cut) ==
    /\ \A i \in 1..Len(silent) : IsSilent(silent[i])
    /\ last.kind = "event" => ~IsSilent(last.event)
    /\ cut \in 0..(IF last.kind = "event" THEN Len(EventFrames(last.event, 0)) ELSE 1)

(* after the processing frame: get_or_create_agent, agent.stream and the
   loop up to its first await                                               *)
websocket_start(c, ok, silent, last, cut) ==
    /\ ws[c].pc = "start"
    /\ LET g == get_or_create_agent(ok)
           w == [ws[c] EXCEPT !.calls = @ + 1]
       IN  IF g.agent = 0
           THEN /\ silent = <<>> /\ last = StreamRaise /\ cut \in {0, 1}
                /\ NoTurn
                /\ ws' = [ws EXCEPT ![c] =
                            IF cut >= 1 THEN TurnFailed(w, ENGINE_ERROR)
                            ELSE SendFailed([w EXCEPT !.raised = TRUE], w.frames)]
           ELSE /\ StepInput(w, silent, last, cut)
                /\ BeginTurn(g, "ws", w.user_id, WsConfig(w.user_id))
                /\ ws' = [ws EXCEPT ![c] =
                            Iterate(TurnLocals([w EXCEPT !.agent = g.agent,
                                                          !.turn = Len(turns) + 1]),
                                    silent, last, cut)]
    /\ UNCHANGED <<resets, http, prefVars>>

(* the loop resumed after the await of a send *)
websocket_resume(c, silent, last, cut) ==
    /\ ws[c].pc = "stream"
    /\ StepInput(ws[c], silent, last, cut)
    /\ ws' = [ws EXCEPT ![c] = Iterate(@, silent, last, cut)]
    /\ UNCHANGED <<globalAgent, created, resets, engineEpoch, memory, turns, http, prefVars>>

----------------------------------------------------------------------------
(* Preferences: GET / POST / DELETE /preferences over table user_preferences *)

PrefUsers == {"u1", "u2"}

PrefKeys == {"cost", "coverage"}

PrefValues == {"low", "high"}

INVALID_ARGUMENT == "invalid argument"

STORAGE_ERROR == "storage failure"

(* PreferenceRequest: user_id, priority_key and priority_value are plain
   `str` fields, so the empty string passes validation                      *)
PreferenceRequest ==
    [user_id : PrefUsers \cup {""}, priority_key : PrefKeys \cup {""},
     priority_value : PrefValues]

Row(user_id, key, value) ==
    [user_id |-> user_id, priority_key |-> key, priority_value |-> value]

RowsOf(table, user_id) == {r \in table : r.user_id = user_id}

RowsAt(table, user_id, key) == {r \in RowsOf(table, user_id) : r.priority_key = key}

(* update_user_priority: create the record of (user, key) or overwrite its
   value; an empty user or key is refused before the table is touched       *)
update_user_priority(table, request, fails) ==
    IF request.user_id = "" \/ request.priority_key = ""
    THEN [raised |-> INVALID_ARGUMENT, table |-> table, writes |-> 0]
    ELSE IF fails
    THEN [raised |-> STORAGE_ERROR, table |-> table, writes |-> 1]
    ELSE [raised |-> None,
          table |-> (table \ RowsAt(table, request.user_id, request.priority_key))
                        \cup {Row(request.user_id, request.priority_key,
                                  request.priority_value)},
          writes |-> 1]

(* get_user_priorities: the key -> value mapping of a user, as its items *)
get_user_priorities(table, user_id) ==
    {<<r.priority_key, r.priority_value>> : r \in RowsOf(table, user_id)}

NoMapping == {}

NoPrefRequest == [user_id |-> None, priority_key |-> None, priority_value |-> None]

(* the latest preferences response; request, previous, changed, reads and
   writes are ghosts: the request served, the values its key held before,
   whether the table changed, the reads and writes of the table that were
   attempted, and (prior) the count returned by the request just before,
   if that was a delete for the same user                                   *)
PrefResponse(op, status, user_id, preferences, count, detail, request, previous, changed, reads, writes) ==
    [op |-> op, status |-> status, user_id |-> user_id, preferences |-> preferences,
     count |-> count, detail |-> detail, request |-> request, previous |-> previous,
     changed |-> changed, reads |-> reads, writes |-> writes, prior |-> {}]

NoPrefResponse ==
    PrefResponse("none", 0, None, NoMapping, 0, None, NoPrefRequest, {}, FALSE, 0, 0)

(* GET /preferences/{user_id} *)
get_preferences(user_id, fails) ==
    /\ prefResp' =
           IF fails
           THEN PrefResponse("get", 500, user_id, NoMapping, 0, STORAGE_ERROR,
                             NoPrefRequest, {}, FALSE, 1, 0)
           ELSE LET preferences == get_user_priorities(prefs, user_id)
                IN  PrefResponse("get", 200, user_id, preferences,
                                 Cardinality(preferences), None, NoPrefRequest, {},
                                 FALSE, 1, 0)
    /\ UNCHANGED <<globalAgent, created, resets, engineEpoch, memory, turns, ws, http,
                   prefs>>

(* mutant of ReadsAfterUpdate: the mapping is read before the update *)
ReadsBeforeUpdate(before, after) == before

(* the table read by get_user_priorities, called after update_user_priority *)
ReadsAfterUpdate(before, after) == after

(* mutant of SaveReads: the mapping is read whatever the update did *)
SaveReadsAlways(raised) == 1

(* get_user_priorities is reached only when update_user_priority returned *)
SaveReads(raised) == IF raised = None THEN 1 ELSE 0

(* POST /preferences; fails: "write" / "read" is the call that raises a
   storage error                                                            *)
save_preference(request, fails) ==
    LET u == update_user_priority(prefs, request, fails = "write")
        reads == SaveReads(u.raised)
        previous == {r.priority_value :
                        r \in RowsAt(prefs, request.user_id, request.priority_key)}
        preferences == get_user_priorities(ReadsAfterUpdate(prefs, u.table),
                                           request.user_id)
    IN  /\ prefs' = u.table
        /\ prefResp' =
               IF u.raised # None
               THEN PrefResponse("save", 500, None, NoMapping, 0, u.raised, request,
                                 previous, u.table # prefs, reads, u.writes)
               ELSE IF fails = "read"
               THEN PrefResponse("save", 500, None, NoMapping, 0, STORAGE_ERROR,
                                 request, previous, u.table # prefs, reads, u.writes)
               ELSE PrefResponse("save", 200, request.user_id, preferences, 0, None,
                                 request, previous, u.table # prefs, reads, u.writes)
        /\ UNCHANGED <<globalAgent, created, resets, engineEpoch, memory, turns, ws,
                       http>>

(* mutant of Deleted: DELETE FROM user_preferences, without WHERE *)
DeletedAll(table, user_id) == table

(* DELETE FROM user_preferences WHERE user_id = ? *)
Deleted(table, user_id) == RowsOf(table, user_id)

(* DELETE /preferences/{user_id}; deleted_count is cursor.rowcount *)
delete_preferences(user_id, fails) ==
    LET rows == Deleted(prefs, user_id)
    IN  /\ prefs' = IF fails THEN prefs ELSE prefs \ rows
        /\ prefResp' =
               IF fails
               THEN PrefResponse("delete", 500, None, NoMapping, 0, STORAGE_ERROR,
                                 NoPrefRequest, {}, FALSE, 0, 1)
               ELSE [PrefResponse("delete", 200, user_id, NoMapping,
                                  Cardinality(rows), None, NoPrefRequest, {},
                                  rows # {}, 0, 1)
                        EXCEPT !.prior =
                            IF prefResp.op = "delete" /\ prefResp.status = 200
                               /\ prefResp.user_id = user_id
                            THEN {prefResp.count} ELSE {}]
        /\ UNCHANGED <<globalAgent, created, resets, engineEpoch, memory, turns, ws,
                       http>>

----------------------------------------------------------------------------
(* Specifications *)

Init ==
    /\ globalAgent = 0
    /\ created = 0
    /\ resets = <<>>
    /\ engineEpoch = [e \in Engines |-> 0]
    /\ memory = [e \in Engines |-> [t \in Threads |-> <<>>]]
    /\ turns = <<>>
    /\ ws = [c \in Channels |-> IdleChannel]
    /\ http = NoResponse
    /\ prefs = {}
    /\ prefResp = NoPrefResponse

(* ConversationClearRequest: user_id is optional *)
ClearRequests == [user_id : {"u1", None}]

Silent(events) == {e \in events : IsSilent(e)}

Steps(events) == {Yield(e) : e \in events \ Silent(events)} \cup {StreamEnd, StreamRaise}

(* with drops, the peer may be gone at any send *)
Cuts(last, drops) ==
    LET n == IF last.kind = "event" THEN Len(EventFrames(last.event, 0)) ELSE 1
    IN  IF drops THEN 0..n ELSE {n}

(* the events a step may still consume in a turn of at most n events *)
Room(w, last, n) == n - Len(w.evs) - (IF last.kind = "event" THEN 1 ELSE 0)

(* the streaming actions of the channels chs, the engine yielding at most n
   of `events` in a turn                                                    *)
Accept(chs) == \E c \in chs, u \in WsUsers : websocket_accept(c, u)

Disconnect(chs) == \E c \in chs : websocket_disconnect(c)

Receive(chs, inbound, drops) ==
    \E c \in chs, data \in inbound, sent \in {TRUE, ~drops} :
        websocket_receive(c, data, sent)

Start(chs, events, n, drops) ==
    \E c \in chs, ok \in BOOLEAN, last \in Steps(events) :
        \E silent \in SeqsUpTo(Silent(events), Room(ws[c], last, n)),
           cut \in Cuts(last, drops) :
            websocket_start(c, ok, silent, last, cut)

Resume(chs, events, n, drops) ==
    \E c \in chs, last \in Steps(events) :
        \E silent \in SeqsUpTo(Silent(events), Room(ws[c], last, n)),
           cut \in Cuts(last, drops) :
            websocket_resume(c, silent, last, cut)

Query(users, events, n) ==
    \E request \in [query : {"q1"}, user_id : users], ok \in BOOLEAN,
       evs \in SeqsUpTo(events, n), raises \in BOOLEAN :
        execute_query(request, ok, evs, raises)

Clear == \E request \in ClearRequests : clear_conversation(request)

(* Sessions: every surface, all channels, resets; short streaming turns of
   one kind of event, request/response turns without events, one kind of
   inbound frame, peers that stay.                                          *)
Next ==
    \/ Accept(Channels)
    \/ Receive(Channels, {d \in Inbound : d.query = "q1"}, FALSE)
    \/ Start(Channels, SessionEvents, MaxSessionEvents, FALSE)
    \/ Resume(Channels, SessionEvents, MaxSessionEvents, FALSE)
    \/ Query({"u1"}, SessionEvents, 0)
    \/ Clear

Spec == Init /\ [][Next]_vars

(* Turns: a process that serves either one POST /query or one streaming
   channel, with every kind of event and of inbound frame.                  *)
TurnNext ==
    \/ http = NoResponse /\ Accept({1})
    \/ Disconnect({1})
    \/ Receive({1}, Inbound, TRUE)
    \/ Start({1}, TurnEvents, MaxEvents, TRUE)
    \/ Resume({1}, TurnEvents, MaxEvents, TRUE)
    \/ turns = <<>> /\ ws[1].pc = "idle" /\ Query({DEFAULT_USER}, TurnEvents, MaxEvents)

SpecTurn == Init /\ [][TurnNext]_vars

(* the events of the liveness specification: a message, a tool invocation
   on the SQL tool and a tool result that sends no frame                    *)
LiveEvents ==
    { Event(<<>>, "m1", None),
      Event(<<ToolCall(SQL_TOOL, "Q1")>>, "", None),
      Event(<<>>, "r2", OTHER_TOOL) }

(* Liveness of a channel: one channel whose peer may leave at any time and
   an engine that yields at most MaxEvents events in a turn.  The event loop
   of asyncio resumes a coroutine once the send it awaits is over, and the
   generator of the engine is run in the coroutine itself: a turn that can
   take a step takes it.                                                    *)
LiveNext ==
    \/ Accept({1})
    \/ Disconnect({1})
    \/ Receive({1}, Inbound, TRUE)
    \/ Start({1}, LiveEvents, MaxEvents, TRUE)
    \/ Resume({1}, LiveEvents, MaxEvents, TRUE)

SpecLive ==
    /\ Init
    /\ [][LiveNext]_vars
    /\ WF_vars(Start({1}, LiveEvents, MaxEvents, TRUE))
    /\ WF_vars(Resume({1}, LiveEvents, MaxEvents, TRUE))

GetPreferences == \E u \in PrefUsers, fails \in BOOLEAN : get_preferences(u, fails)

SavePreference ==
    \E request \in PreferenceRequest, fails \in {"none", "write", "read"} :
        save_preference(request, fails)

DeletePreferences == \E u \in PrefUsers, fails \in BOOLEAN : delete_preferences(u, fails)

(* Preferences: the three preferences endpoints on the table, the query
   surfaces idle.                                                           *)
PrefNext ==
    \/ GetPreferences
    \/ SavePreference
    \/ DeletePreferences

SpecPrefs == Init /\ [][PrefNext]_vars

----------------------------------------------------------------------------
(* Properties *)

(* the discriminator of an outbound frame: its status, else its type; a frame
   with neither carries only the `error` key                                *)
FrameKind(f) ==
    IF f.status # None THEN f.status ELSE IF f.type # None THEN f.type ELSE "error"

IsTerminal(f) == f.status \in {"completed", "error"}

IsMiddle(f) == f.status = None /\ f.type \in {"tool_call", "raw_result", "message"}

Kinds(frames) == [i \in 1..Len(frames) |-> FrameKind(frames[i])]

(* the channels whose latest inbound frame carried a non-empty query *)
InTurn(c) == ws[c].inbound = "valid"

(* the turn of channel c ran to its end with the peer still there *)
TurnOver(c) == InTurn(c) /\ ws[c].pc = "receive"

(* C1: the frames of a streaming turn are one processing frame, then
   tool_call / raw_result / message frames in the order of the events that
   produced them, then one terminal frame (completed or error); nothing
   follows the terminal frame, a turn never has two terminal frames, and a
   turn that ran to its end has exactly one.                                *)
C1_FrameOrder ==
    \A c \in Channels :
        InTurn(c) =>
            LET f == ws[c].frames
                n == Len(f)
            IN  /\ n >= 1 => f[1] = ProcessingFrame
                /\ \A i \in 2..n : FrameKind(f[i]) # "processing"
                /\ \A i \in 1..(n - 1) : ~IsTerminal(f[i])
                /\ \A i \in 2..n : IsMiddle(f[i]) \/ (i = n /\ IsTerminal(f[i]))
                /\ \A i \in 2..n : \A j \in i..n :
                       IsMiddle(f[i]) /\ IsMiddle(f[j]) =>
                           /\ 1 <= f[i].ev /\ f[i].ev <= f[j].ev
                           /\ f[j].ev <= Len(ws[c].evs)
                /\ Cardinality({i \in 1..n : IsTerminal(f[i])}) <= 1
                /\ (n >= 1 /\ IsTerminal(f[n])) => ws[c].pc \in {"receive", "closed"}
                /\ ws[c].pc \in {"start", "stream"} => (n >= 1 /\ ~IsTerminal(f[n]))
                /\ TurnOver(c) => (n >= 2 /\ IsTerminal(f[n]))

(* a finished turn whose frames are processing, tool_call, raw_result,
   message, completed                                                       *)
C1_Witness ==
    \E c \in Channels :
        /\ TurnOver(c)
        /\ Kinds(ws[c].frames) =
               <<"processing", "tool_call", "raw_result", "message", "completed">>

(* C2: an exception of the engine (creation, invocation, iteration) during a
   streaming turn gives a terminal error frame and the loop waits for the
   next inbound frame; the loop of a channel in a turn ends only when the
   peer is gone.                                                            *)
C2_FailedTurnKeepsChannel ==
    \A c \in Channels :
        InTurn(c) =>
            /\ (ws[c].raised /\ ~ws[c].disconnected) =>
                   /\ ws[c].pc = "receive"
                   /\ Len(ws[c].frames) >= 2
                   /\ ws[c].frames[Len(ws[c].frames)].status = "error"
            /\ ws[c].pc = "closed" => ws[c].disconnected

(* a turn that failed after an event was streamed, the loop listening again *)
C2_Witness ==
    \E c \in Channels :
        /\ TurnOver(c) /\ ws[c].raised /\ ~ws[c].disconnected
        /\ Len(ws[c].evs) >= 1
        /\ Kinds(ws[c].frames) = <<"processing", "message", "error">>

(* C3: an inbound frame that is not a JSON object with a query is reported
   and the loop of the channel keeps listening.                             *)
C3_MalformedKeepsChannel ==
    \A c \in Channels :
        (ws[c].inbound = "malformed" /\ ~ws[c].disconnected) =>
            /\ ws[c].pc = "receive"
            /\ Len(ws[c].frames) = 1

(* C4: an inbound frame with an empty or missing query gives exactly one
   error frame ("Query is required"), no processing frame and no call of the
   engine, and the loop keeps listening.                                    *)
C4_EmptyQuery ==
    \A c \in Channels :
        ws[c].inbound = "empty" =>
            /\ ws[c].calls = 0 /\ ws[c].turn = 0 /\ ws[c].agent = 0
            /\ \A i \in 1..Len(ws[c].frames) : FrameKind(ws[c].frames[i]) # "processing"
            /\ Len(ws[c].frames) <= 1
            /\ ~ws[c].disconnected =>
                   /\ Len(ws[c].frames) = 1
                   /\ FrameKind(ws[c].frames[1]) = "error"
                   /\ ws[c].frames[1].text = QUERY_REQUIRED
                   /\ ws[c].pc = "receive"

(* an empty query answered on a channel that was in a turn before *)
C4_Witness ==
    \E c \in Channels :
        /\ ws[c].inbound = "empty" /\ ws[c].pc = "receive"
        /\ ws[c].frames = <<QueryRequiredFrame>>
        /\ Len(turns) >= 1

(* the positions <<event, call>> of the tool invocations on the SQL tool *)
SqlInvocations(evs) ==
    UNION {{<<i, k>> : k \in {j \in DOMAIN evs[i].tool_calls :
                                   evs[i].tool_calls[j].name = "sql_db_query"}}
           : i \in {j \in DOMAIN evs : evs[j].has_messages}}

(* the query argument of the last tool invocation on the SQL tool: None when
   there is no such invocation, "" when it has no query argument            *)
LastSqlQuery(evs) ==
    LET P == SqlInvocations(evs) IN
    IF P = {} THEN None
    ELSE LET p == CHOOSE p \in P :
                      \A q \in P : q[1] < p[1] \/ (q[1] = p[1] /\ q[2] <= p[2])
             arg == evs[p[1]].tool_calls[p[2]].query
         IN  IF arg = None THEN "" ELSE arg

(* C5: the SQL text of a QueryOutcome and of a completed frame is the query
   argument of the last tool invocation on sql_db_query among the events of
   the turn, and absent when there is none.                                 *)
C5_LastSqlWins ==
    /\ http.status = 200 => http.sql_query = LastSqlQuery(http.events)
    /\ \A c \in Channels :
           (TurnOver(c) /\ ws[c].frames[Len(ws[c].frames)].status = "completed") =>
               ws[c].frames[Len(ws[c].frames)].text = LastSqlQuery(ws[c].evs)

(* a QueryOutcome for invocations with Q1 then Q2, whose SQL text is Q2 *)
C5_Witness ==
    /\ http.status = 200
    /\ Len(http.events) = 2
    /\ http.events[1].tool_calls = <<ToolCall(SQL_TOOL, "Q1")>>
    /\ http.events[2].tool_calls = <<ToolCall(SQL_TOOL, "Q2")>>
    /\ http.sql_query = "Q2"

(* a message with string content and no name *)
UnnamedMessage(e) ==
    e.has_messages /\ e.content \notin {None, NotStr} /\ e.name \in {None, ""}

(* C6: the summary of a QueryOutcome is never empty, and it is the fallback
   "Query processed successfully" when no event of the turn is an unnamed
   message.                                                                 *)
C6_FallbackSummary ==
    http.status = 200 =>
        /\ http.summary \notin {"", None}
        /\ (\A i \in DOMAIN http.events : ~UnnamedMessage(http.events[i])) =>
               http.summary = FALLBACK

(* a QueryOutcome of a turn with a tool invocation and its result but no
   unnamed message                                                          *)
C6_Witness ==
    /\ http.status = 200
    /\ Len(http.events) = 2
    /\ \A i \in DOMAIN http.events : ~UnnamedMessage(http.events[i])
    /\ http.sql_query = "Q2" /\ http.raw_result = "r1"
    /\ http.summary = FALLBACK

(* C7: a streaming turn of one tool call on a tool other than the SQL tool,
   that tool's result and one final message sends exactly the frames
   processing, tool_call, message, completed.                               *)
C7_ToolCallTurnFrames ==
    \A c \in Channels :
        ( /\ TurnOver(c) /\ ~ws[c].raised
          /\ Len(ws[c].evs) = 3
          /\ Len(ws[c].evs[1].tool_calls) = 1
          /\ ws[c].evs[1].tool_calls[1].name = OTHER_TOOL
          /\ ws[c].evs[2].tool_calls = <<>> /\ ws[c].evs[2].name = OTHER_TOOL
          /\ ws[c].evs[3].tool_calls = <<>> /\ ws[c].evs[3].name = None
          /\ ws[c].evs[3].content = "m1" )
        => Kinds(ws[c].frames) = <<"processing", "tool_call", "message", "completed">>

Remembered(j) == {turns[j].seen[k] : k \in DOMAIN turns[j].seen}

(* C8: of two turns of the same user with no reset between them, on either
   surface, the later runs on the same engine instance and thread as the
   earlier and finds the earlier turn in the memory of its session.         *)
C8_SameSession ==
    \A j \in DOMAIN turns : \A i \in 1..(j - 1) :
        (turns[i].user_id = turns[j].user_id /\ turns[i].epoch = turns[j].epoch) =>
            /\ turns[j].engine = turns[i].engine
            /\ turns[j].thread = turns[i].thread
            /\ i \in Remembered(j)

(* a request/response turn and a streaming turn of one user, the second
   remembering the first                                                    *)
C8_Witness ==
    \E j \in DOMAIN turns : \E i \in 1..(j - 1) :
        /\ turns[i].user_id = turns[j].user_id /\ turns[i].epoch = turns[j].epoch
        /\ turns[i].surface # turns[j].surface
        /\ turns[j].engine = turns[i].engine
        /\ i \in Remembered(j)

(* C9: a turn started after a reset, for any user and whatever user the
   reset named, runs on an engine instance created after that reset and
   finds no turn from before the reset in the memory of its session.        *)
C9_ResetForgets ==
    \A j \in DOMAIN turns :
        /\ engineEpoch[turns[j].engine] = turns[j].epoch
        /\ \A i \in Remembered(j) : turns[i].epoch = turns[j].epoch
        /\ \A i \in 1..(j - 1) :
               turns[i].epoch < turns[j].epoch => turns[i].engine # turns[j].engine

(* a reset naming u1 between two turns of u2: the second turn runs on a new
   instance and remembers nothing                                           *)
C9_Witness ==
    /\ resets = <<"u1">>
    /\ Len(turns) = 2
    /\ turns[1].user_id = "u2" /\ turns[2].user_id = "u2"
    /\ turns[1].epoch = 0 /\ turns[2].epoch = 1
    /\ turns[2].engine # turns[1].engine
    /\ turns[2].seen = <<>>

(* C10: two turns of one user that are in flight together are bound to the
   same engine instance and the same thread, whatever resets interleave.    *)
C10_OneLiveHandle ==
    \A j \in DOMAIN turns : \A i \in turns[j].overlap :
        turns[i].user_id = turns[j].user_id =>
            /\ turns[j].engine = turns[i].engine
            /\ turns[j].thread = turns[i].thread

(* C10 as amended: two turns of one user that are in flight together have
   the same thread, and the same engine instance when no reset came between
   their starts.                                                            *)
C10_OneHandleBetweenResets ==
    \A j \in DOMAIN turns : \A i \in turns[j].overlap :
        turns[i].user_id = turns[j].user_id =>
            /\ turns[j].thread = turns[i].thread
            /\ turns[i].epoch = turns[j].epoch => turns[j].engine = turns[i].engine

(* a request/response turn made while a streaming turn of the same user is
   suspended between two frames, on the same instance and thread            *)
C10_Witness ==
    \E j \in DOMAIN turns : \E i \in turns[j].overlap :
        /\ turns[i].user_id = turns[j].user_id
        /\ turns[i].surface = "ws" /\ turns[j].surface = "http"
        /\ turns[i].epoch = turns[j].epoch
        /\ turns[j].engine = turns[i].engine
        /\ turns[j].thread = turns[i].thread

(* C11: a turn runs on one engine instance that exists, the one it obtained
   at its start: everything the turn consumes comes from that instance, also
   when a reset happens while the turn is suspended between two frames.     *)
C11_OneInstancePerTurn ==
    /\ \A j \in DOMAIN turns : turns[j].engine \in 1..created
    /\ \A c \in Channels :
           ws[c].turn # 0 =>
               /\ ws[c].agent = turns[ws[c].turn].engine
               /\ ws[c].sources \subseteq {ws[c].agent}

(* a streaming turn that went on, on its instance, after a reset replaced
   the instance of the registry                                             *)
C11_Witness ==
    \E c \in Channels :
        /\ ws[c].turn # 0
        /\ epoch > turns[ws[c].turn].epoch
        /\ ws[c].sources = {ws[c].agent}
        /\ globalAgent # ws[c].agent

(* C12: when obtaining or running the engine raises, POST /query answers
   with a failure that carries the message of the exception and with no
   QueryOutcome, and the request has invoked the engine at most once.       *)
C12_QueryFailure ==
    /\ http.raised =>
           /\ http.status = 500
           /\ http.detail = ENGINE_ERROR
           /\ http.summary = None /\ http.sql_query = None /\ http.raw_result = None
    /\ http.status = 200 => (~http.raised /\ http.detail = None)
    /\ http.status # 0 => Len(turns) <= 1
    /\ (http.status # 0 /\ Len(turns) = 0) => (http.raised /\ http.events = <<>>)

(* the engine raised after a tool invocation on the SQL tool and its result *)
C12_Witness ==
    /\ http.raised /\ http.status = 500
    /\ Len(turns) = 1
    /\ Len(http.events) = 2
    /\ LastSqlQuery(http.events) = "Q1"
    /\ http.sql_query = None

(* C13: a delete for a user who has N records (N >= 0) removes exactly those
   N records, leaves every other user's records alone and returns N; a delete
   that immediately follows a delete for the same user returns 0 and succeeds
   like any other.                                                          *)
C13_DeleteAll ==
    [][(prefResp' # prefResp /\ prefResp'.op = "delete" /\ prefResp'.status = 200) =>
           LET u == prefResp'.user_id
           IN  /\ prefResp'.count = Cardinality(RowsOf(prefs, u))
               /\ prefs' = prefs \ RowsOf(prefs, u)
               /\ RowsOf(prefs', u) = {}
               /\ prefResp'.prior # {} => prefResp'.count = 0]_vars

C13_Witness ==
    /\ prefResp.op = "delete" /\ prefResp.status = 200
    /\ prefResp.prior = {2} /\ prefResp.count = 0
    /\ prefs # {}

(* C14: the table never holds two records of one (user, key); a write that
   succeeds leaves exactly one record of its (user, key), holding the value
   just written, whatever value the key held before, and the mapping it
   returns has that key with that value.                                    *)
C14_OneRecordPerKey ==
    /\ \A r1 \in prefs, r2 \in prefs :
           (r1.user_id = r2.user_id /\ r1.priority_key = r2.priority_key) => r1 = r2
    /\ (prefResp.op = "save" /\ prefResp.status = 200) =>
           LET q == prefResp.request
           IN  /\ RowsAt(prefs, q.user_id, q.priority_key)
                      = {Row(q.user_id, q.priority_key, q.priority_value)}
               /\ <<q.priority_key, q.priority_value>> \in prefResp.preferences
               /\ \A kv \in prefResp.preferences :
                      kv[1] = q.priority_key => kv[2] = q.priority_value

C14_Witness ==
    /\ prefResp.op = "save" /\ prefResp.status = 200
    /\ prefResp.previous = {"low"} /\ prefResp.request.priority_value = "high"
    /\ Cardinality(prefResp.preferences) = 2

(* C15: a write whose user id or priority key is empty fails as an invalid
   argument with the table unchanged and with no read and no write of the
   table attempted.                                                         *)
C15_EmptyKeyRefused ==
    (prefResp.op = "save"
     /\ (prefResp.request.user_id = "" \/ prefResp.request.priority_key = "")) =>
        /\ prefResp.status = 500
        /\ prefResp.detail = INVALID_ARGUMENT
        /\ ~prefResp.changed
        /\ prefResp.reads = 0
        /\ prefResp.writes = 0
        /\ \A r \in prefs : r.user_id # "" /\ r.priority_key # ""

C15_Witness ==
    /\ prefResp.op = "save" /\ prefResp.status = 500
    /\ prefResp.request.user_id = "u1" /\ prefResp.request.priority_key = ""
    /\ RowsOf(prefs, "u1") # {}

(* the accumulators of execute_query before event i of the request *)
Before(events, i) == CollectEvents(InitialOutcome, SubSeq(events, 1, i - 1))

(* C16: one event is a tool invocation, a tool result or a message, never two
   of them: no event of a streaming turn gets both a tool_call frame and a
   message frame, no event of a request changes both the SQL text and the
   summary, and a tool result (a named message) neither gets a message frame
   nor changes the summary.                                                 *)
C16_OneClassPerEvent ==
    /\ \A c \in Channels :
           InTurn(c) =>
               LET f == ws[c].frames
               IN  /\ \A i \in 1..Len(f) : \A j \in 1..Len(f) :
                          ~(f[i].type = "tool_call" /\ f[j].type = "message"
                            /\ f[i].ev = f[j].ev)
                   /\ \A i \in 1..Len(f) :
                          f[i].type = "message" => IsUnnamed(ws[c].evs[f[i].ev])
    /\ \A i \in 1..Len(http.events) :
           LET b == Before(http.events, i)
               a == CollectEvent(b, http.events[i])
           IN  /\ ~(a.sql_query # b.sql_query /\ a.summary # b.summary)
               /\ ~IsUnnamed(http.events[i]) => a.summary = b.summary

Max(S) == CHOOSE x \in S : \A y \in S : y <= x

(* a Message of the reasoning step: no tool calls, no tool name, content
   that is a non-empty string, and not the caller's own utterance           *)
ReasoningMessage(e) ==
    /\ e.has_messages /\ e.tool_calls = <<>> /\ e.name = None
    /\ e.content \notin {None, NotStr, ""}
    /\ e # Utterance

ToolResult(e) == e.has_messages /\ e.name \notin {None, ""}

(* C17: when the events of a request hold a non-empty Message of the
   reasoning step, the summary of the outcome is the content of the last
   such Message; the summary is never the content of a tool result nor the
   caller's own utterance.                                                  *)
C17_SummaryIsLastMessage ==
    http.status = 200 =>
        LET R == {i \in 1..Len(http.events) : ReasoningMessage(http.events[i])}
        IN  /\ R # {} => http.summary = http.events[Max(R)].content
            /\ http.summary # Utterance.content
            /\ \A i \in 1..Len(http.events) :
                   ToolResult(http.events[i]) => http.summary # http.events[i].content

(* the last frame of the turn of channel c, when it is the completed frame *)
Completed(c) ==
    /\ TurnOver(c) /\ ws[c].frames # <<>>
    /\ ws[c].frames[Len(ws[c].frames)].status = "completed"

(* C18: what a turn reports depends on its own events only: the SQL text of
   the completed frame and the accumulators of a streaming turn are those of
   a fresh interpreter run over the events of this turn, so the SQL text is
   absent when the turn has no invocation of the SQL tool, whatever an
   earlier turn on the channel left; the outcome of a request is that of a
   fresh interpreter run over the events of the request.                    *)
C18_StatelessAcrossTurns ==
    /\ \A c \in Channels :
           Completed(c) =>
               LET o == CollectEvents(InitialOutcome, ws[c].evs)
                   sql == ws[c].frames[Len(ws[c].frames)].text
               IN  /\ sql = o.sql_query
                   /\ ws[c].raw_result = o.raw_result
                   /\ SqlInvocations(ws[c].evs) = {} => sql = None
    /\ http.status = 200 =>
           LET o == CollectEvents(InitialOutcome, http.events)
           IN  /\ http.sql_query = o.sql_query
               /\ http.raw_result = o.raw_result
               /\ http.summary = SummaryOrFallback(o.summary)

(* a turn without SQL invocation, completed with no SQL text on a channel
   whose earlier turn had extracted one                                     *)
C18_Witness ==
    \E c \in Channels :
        /\ Completed(c) /\ ws[c].stale
        /\ ws[c].evs # <<>> /\ SqlInvocations(ws[c].evs) = {}
        /\ ws[c].frames[Len(ws[c].frames)].text = None

(* the frames of kind `type` among the frames f *)
FramesOf(f, type) == {i \in 1..Len(f) : f[i].type = type}

(* C19: for the events of a completed streaming turn, the frames agree with
   the outcome execute_query derives from the same events: the sql_query of
   the completed frame is the outcome's sql_query, the content of the last
   raw_result frame, if there is one, is the outcome's raw_result, and the
   content of the last message frame, if there is one and it is not empty,
   is the outcome's summary.                                                *)
C19_SurfacesAgree ==
    \A c \in Channels :
        Completed(c) =>
            LET f == ws[c].frames
                o == CollectEvents(InitialOutcome, ws[c].evs)
                raws == FramesOf(f, "raw_result")
                msgs == FramesOf(f, "message")
            IN  /\ f[Len(f)].text = o.sql_query
                /\ raws # {} => f[Max(raws)].text = o.raw_result
                /\ (msgs # {} /\ f[Max(msgs)].text # "") =>
                       f[Max(msgs)].text = SummaryOrFallback(o.summary)

(* a completed turn with a SQL text, a raw_result frame and a last message
   frame that is not empty                                                  *)
C19_Witness ==
    \E c \in Channels :
        /\ Completed(c)
        /\ ws[c].frames[Len(ws[c].frames)].text = "Q2"
        /\ FramesOf(ws[c].frames, "raw_result") # {}
        /\ FramesOf(ws[c].frames, "message") # {}
        /\ ws[c].frames[Max(FramesOf(ws[c].frames, "message"))].text = "m1"

(* the processing frame of a turn was sent and no terminal frame yet *)
Processing(c) ==
    /\ ws[c].pc \in {"start", "stream"}
    /\ ws[c].frames # <<>> /\ ws[c].frames[1] = ProcessingFrame

(* the turn got its terminal frame and the loop awaits an inbound frame *)
Terminated(c) ==
    /\ ws[c].pc = "receive" /\ ws[c].frames # <<>>
    /\ IsTerminal(ws[c].frames[Len(ws[c].frames)])

(* C20: a turn whose processing frame was sent, on a channel whose peer
   stays, comes to its terminal frame (completed or error) with the loop
   awaiting the next inbound frame; the engine's events of a turn are
   finitely many.                                                           *)
C20_TurnTerminates ==
    \A c \in {1} : Processing(c) ~> (Terminated(c) \/ ws[c].disconnected)

(* a turn of several events that came to its completed frame *)
C20_Witness ==
    /\ Terminated(1) /\ ~ws[1].disconnected
    /\ Len(ws[1].evs) >= 2 /\ Len(turns) = 2
    /\ ws[1].frames[Len(ws[1].frames)].status = "completed"

====
